---- MODULE Spec2Model ----
(***************************************************************************)
(* Model of the problem-shape registry, the projectors, OperationSpace and *)
(* GetMaxWorkingSetSizes of src/src/cnn/problem-config.cpp.                *)
(*                                                                         *)
(* Point, DataSpace (the point set) and WorkloadConfig are declared in     *)
(* headers that are not part of the sources at hand; they are modelled     *)
(* from the specification: a Point is a tuple of integers, a DataSpace is  *)
(* the exact set of tensor points it covers, a WorkloadConfig is a record  *)
(* of the two strides and the two dilations.                               *)
(***************************************************************************)
EXTENDS Integers, Sequences, FiniteSets, TLC

VARIABLES
  DataTypeOrder,   \* std::vector<unsigned>: arity of each DataType's space
  projectors,      \* std::vector<std::function<...>>: one projector per DataType
  config,          \* the caller's WorkloadConfig object
  a,               \* an OperationSpace object of the caller (or NoObject)
  b,               \* a second OperationSpace object of the caller
  retval,          \* the OperationSpace returned by the last operator-
  last,            \* the last call: its name, arguments and outcome
  nops             \* number of calls made so far

vars == <<DataTypeOrder, projectors, config, a, b, retval, last, nops>>

----------------------------------------------------------------------------
(* Bounds of the model *)

\* largest coordinate of an operation point on the W-axis dimensions R and P
MaxCoord == 1
\* number of calls in one behaviour of Spec
MaxOps == 3

----------------------------------------------------------------------------
(* Dimension and DataType enumerations *)

\* enum class Dimension, as 1-based tuple positions
R == 1
S == 2
P == 3
Q == 4
C == 5
K == 6
N == 7
NumDimensions == 7

\* DataType::Num, the number of DataTypes (Weight = 0, Input = 1, Output = 2)
NumDataTypes == 3

\* 0-based ordinals of the DataTypes
Weight == 0
Input == 1
Output == 2
DataTypes == 0 .. (NumDataTypes - 1)

\* WeightDimension::Num, InputDimension::Num, OutputDimension::Num
WeightDimensionNum == 4
InputDimensionNum == 4
OutputDimensionNum == 4

nullptr == "nullptr"
WcPtr == "wc"

----------------------------------------------------------------------------
(* Inputs *)

\* largest coordinate per iteration dimension <<R, S, P, Q, C, K, N>>
DimMax == <<MaxCoord, 1, MaxCoord, 1, 1, 1, 1>>

OperationPoints ==
  { <<r, s, p, q, c, k, n>> :
      r \in 0 .. DimMax[R], s \in 0 .. DimMax[S], p \in 0 .. DimMax[P],
      q \in 0 .. DimMax[Q], c \in 0 .. DimMax[C], k \in 0 .. DimMax[K],
      n \in 0 .. DimMax[N] }

\* stride and dilation values of the workload configurations
WAxisVals == {0, 1, 2}
HAxisVals == {1, 2}

Configs ==
  [ Wstride : WAxisVals, Wdilation : WAxisVals,
    Hstride : HAxisVals, Hdilation : HAxisVals ]

\* the configurations of the client of Spec, and the values a read through a
\* null pointer may yield
MainConfigs == { c \in Configs : c.Hstride = 1 /\ c.Hdilation = 1
                                 /\ c.Wstride = 1 /\ c.Wdilation >= 1 }

PointLeq(low, high) == \A d \in 1 .. Len(low) : low[d] <= high[d]

----------------------------------------------------------------------------
(* Shape registry and projectors *)

\* the three lambdas stored in projectors by BuildProblemShape
WeightProjector(wc, problem_point) ==
  << problem_point[R], problem_point[S], problem_point[C], problem_point[K] >>

InputProjector(wc, problem_point) ==
  << wc.Wstride * problem_point[P] + wc.Wdilation * problem_point[R],
     wc.Hstride * problem_point[Q] + wc.Hdilation * problem_point[S],
     problem_point[C],
     problem_point[N] >>

OutputProjector(wc, problem_point) ==
  << problem_point[P], problem_point[Q], problem_point[K], problem_point[N] >>

\* call of a std::function stored in projectors; wc is the configuration read
CallProjector(f, wc, problem_point) ==
  CASE f = "weight" -> WeightProjector(wc, problem_point)
    [] f = "input"  -> InputProjector(wc, problem_point)
    [] f = "output" -> OutputProjector(wc, problem_point)

\* std::vector::at: bounds-checked access with an int or unsigned index; a
\* negative int converts to a huge size_t and is out of range
InRange(vec, i) == i >= 0 /\ i < Len(vec)
At(vec, i) == vec[i + 1]

\* the tables BuildProblemShape assigns
BuiltDataTypeOrder == << WeightDimensionNum, InputDimensionNum, OutputDimensionNum >>
BuiltProjectors == << "weight", "input", "output" >>

----------------------------------------------------------------------------
(* Point and DataSpace (the point set of one tensor) *)

\* Point::IncrementAllDimensions
IncrementAllDimensions(pt) == [ i \in 1 .. Len(pt) |-> pt[i] + 1 ]

\* the points of the axis-aligned region [low, high), high exclusive
RECURSIVE Box(_, _)
Box(low, high) ==
  IF Len(low) = 0
    THEN { <<>> }
    ELSE { <<x>> \o rest : x \in low[1] .. (high[1] - 1),
                           rest \in Box(Tail(low), Tail(high)) }

\* DataSpace(order): the empty point set of a space of the given arity
DataSpaceEmpty(order) == {}
\* DataSpace(order, low, high): the region [low, high)
DataSpaceRegion(order, low, high) == Box(low, high)
\* DataSpace(order, point): the one-point set used by += of a projected point
DataSpaceAddPoint(ds, pt) == ds \cup { pt }
DataSpaceUnion(ds, other) == ds \cup other
DataSpaceDifference(ds, other) == ds \ other
DataSpaceSize(ds) == Cardinality(ds)
DataSpaceIsEmpty(ds) == ds = {}
DataSpaceEqual(ds, other) == ds = other

----------------------------------------------------------------------------
(* OperationSpace *)

\* An OperationSpace object: workload_config_ and data_spaces_ are its fields.
\* pure and hist are history (ghost) fields: while pure holds, the object's
\* data spaces are the union of those of the regions [low, high] in hist.
NoObject ==
  [ workload_config_ |-> "none", data_spaces_ |-> <<>>, pure |-> FALSE, hist |-> {} ]

\* what a read through the WorkloadConfig pointer yields: the caller's object,
\* or, for a null pointer (undefined behaviour), a crash or arbitrary values
Deref(wc) ==
  IF wc = WcPtr
    THEN { [ kind |-> "value", val |-> config ] }
    ELSE { [ kind |-> "garbage", val |-> g ] : g \in MainConfigs }
           \cup { [ kind |-> "crash", val |-> config ] }

\* variant: the arities are not looked up with at(), so the constructor
\* succeeds whatever the registry holds
OperationSpaceEmpty_Unchecked(wc) ==
  [ status |-> "ok",
    obj |-> [ workload_config_ |-> wc,
              data_spaces_ |-> [ i \in 1 .. NumDataTypes |-> {} ],
              pure |-> TRUE,
              hist |-> {} ] ]

\* OperationSpace(wc): DataTypeOrder.at(space_id) for every space_id
OperationSpaceEmpty(wc) ==
  IF \A space_id \in DataTypes : InRange(DataTypeOrder, space_id)
    THEN [ status |-> "ok",
           obj |-> [ workload_config_ |-> wc,
                     data_spaces_ |->
                       [ i \in 1 .. NumDataTypes |->
                           DataSpaceEmpty(At(DataTypeOrder, i - 1)) ],
                     pure |-> TRUE,
                     hist |-> {} ] ]
    ELSE [ status |-> "out_of_range", obj |-> NoObject ]

\* variant: space_high is computed from low instead of high
RegionDataSpaces_HighFromLow(wcv, low, high) ==
  [ i \in 1 .. NumDataTypes |->
      LET space_low == CallProjector(At(projectors, i - 1), wcv, low)
          space_high == CallProjector(At(projectors, i - 1), wcv, low)
      IN  DataSpaceRegion(At(DataTypeOrder, i - 1), space_low,
                          IncrementAllDimensions(space_high)) ]

\* variant: IncrementAllDimensions is left out
RegionDataSpaces_NoIncrement(wcv, low, high) ==
  [ i \in 1 .. NumDataTypes |->
      LET space_low == CallProjector(At(projectors, i - 1), wcv, low)
          space_high == CallProjector(At(projectors, i - 1), wcv, high)
      IN  DataSpaceRegion(At(DataTypeOrder, i - 1), space_low, space_high) ]

\* variant: the increment is applied to the operation point, before projection
RegionDataSpaces_IncrementFirst(wcv, low, high) ==
  [ i \in 1 .. NumDataTypes |->
      LET space_low == CallProjector(At(projectors, i - 1), wcv, low)
          space_high == CallProjector(At(projectors, i - 1), wcv,
                                      IncrementAllDimensions(high))
      IN  DataSpaceRegion(At(DataTypeOrder, i - 1), space_low, space_high) ]

\* the data spaces OperationSpace(wc, low, high) builds when the configuration
\* read through wc is wcv
RegionDataSpaces(wcv, low, high) ==
  [ i \in 1 .. NumDataTypes |->
      LET space_low == CallProjector(At(projectors, i - 1), wcv, low)
          space_high == CallProjector(At(projectors, i - 1), wcv, high)
      IN  DataSpaceRegion(At(DataTypeOrder, i - 1), space_low,
                          IncrementAllDimensions(space_high)) ]

\* OperationSpace(wc, low, high): the set of possible outcomes
OperationSpaceRegion(wc, low, high) ==
  IF \A space_id \in DataTypes :
       InRange(projectors, space_id) /\ InRange(DataTypeOrder, space_id)
    THEN { IF r.kind = "crash"
             THEN [ status |-> "crash", obj |-> NoObject ]
             ELSE [ status |-> IF r.kind = "value" THEN "ok" ELSE "undefined",
                    obj |-> [ workload_config_ |-> wc,
                              data_spaces_ |-> RegionDataSpaces(r.val, low, high),
                              pure |-> r.kind = "value",
                              hist |-> { [ low |-> low, high |-> high ] } ] ]
           : r \in Deref(wc) }
    ELSE { [ status |-> "out_of_range", obj |-> NoObject ] }

\* OperationSpace::Reset
ResetObj(o) ==
  [ o EXCEPT !.data_spaces_ =
               [ i \in 1 .. Len(o.data_spaces_) |-> {} ],
             !.pure = TRUE,
             !.hist = {} ]

\* variant: the loop assigns instead of accumulating
AccumulateObj_Assign(o, s) ==
  [ o EXCEPT !.data_spaces_ =
               [ i \in 1 .. Len(o.data_spaces_) |-> At(s.data_spaces_, i - 1) ],
             !.pure = o.pure /\ s.pure,
             !.hist = o.hist \cup s.hist ]

\* OperationSpace::operator+=(const OperationSpace&)
AccumulateObj(o, s) ==
  [ o EXCEPT !.data_spaces_ =
               [ i \in 1 .. Len(o.data_spaces_) |->
                   DataSpaceUnion(At(o.data_spaces_, i - 1), At(s.data_spaces_, i - 1)) ],
             !.pure = o.pure /\ s.pure,
             !.hist = o.hist \cup s.hist ]

\* OperationSpace::operator+=(const OperationPoint&) when the configuration
\* read through workload_config_ is wcv
AccumulatePointObj(o, wcv, p) ==
  [ o EXCEPT !.data_spaces_ =
               [ i \in 1 .. Len(o.data_spaces_) |->
                   DataSpaceAddPoint(At(o.data_spaces_, i - 1),
                                     CallProjector(At(projectors, i - 1), wcv, p)) ],
             !.pure = FALSE ]

\* variant: retval is default-constructed, without the workload configuration
SubtractObj_NullConfig(o, p) ==
  [ OperationSpaceEmpty(nullptr).obj
      EXCEPT !.data_spaces_ =
               [ i \in 1 .. Len(o.data_spaces_) |->
                   DataSpaceDifference(At(o.data_spaces_, i - 1),
                                       At(p.data_spaces_, i - 1)) ],
             !.pure = FALSE,
             !.hist = {} ]

\* OperationSpace::operator-: the object returned
SubtractObj(o, p) ==
  [ OperationSpaceEmpty(o.workload_config_).obj
      EXCEPT !.data_spaces_ =
               [ i \in 1 .. Len(o.data_spaces_) |->
                   DataSpaceDifference(At(o.data_spaces_, i - 1),
                                       At(p.data_spaces_, i - 1)) ],
             !.pure = FALSE,
             !.hist = {} ]

\* OperationSpace::GetSizes
GetSizes(o) ==
  [ i \in 1 .. Len(o.data_spaces_) |-> DataSpaceSize(At(o.data_spaces_, i - 1)) ]

\* OperationSpace::GetSize, IsEmpty, CheckEquality: data_spaces_.at(t) throws
\* std::out_of_range for an ordinal outside the vector
\* variant: the ordinal is clamped into the vector instead of checked
GetSize_Clamped(o, t) ==
  LET c == IF t < 0 THEN 0
           ELSE IF t >= Len(o.data_spaces_) THEN Len(o.data_spaces_) - 1 ELSE t
  IN  [ status |-> "ok", value |-> DataSpaceSize(At(o.data_spaces_, c)) ]

GetSize(o, t) ==
  IF InRange(o.data_spaces_, t)
    THEN [ status |-> "ok", value |-> DataSpaceSize(At(o.data_spaces_, t)) ]
    ELSE [ status |-> "out_of_range", value |-> 0 ]

IsEmpty(o, t) ==
  IF InRange(o.data_spaces_, t)
    THEN [ status |-> "ok", value |-> DataSpaceIsEmpty(At(o.data_spaces_, t)) ]
    ELSE [ status |-> "out_of_range", value |-> FALSE ]

CheckEquality(o, rhs, t) ==
  IF InRange(o.data_spaces_, t) /\ InRange(rhs.data_spaces_, t)
    THEN [ status |-> "ok",
           value |-> DataSpaceEqual(At(o.data_spaces_, t), At(rhs.data_spaces_, t)) ]
    ELSE [ status |-> "out_of_range", value |-> FALSE ]

----------------------------------------------------------------------------
(* int and std::size_t arithmetic of GetMaxWorkingSetSizes *)

\* the int type of PerProblemDimension<int>: 32 bits, two's complement
IntMax == 2147483647
IntMin == (-IntMax) - 1
Half == 65536
Byte == 256

\* product of two 16-bit values as << high 16 bits, low 16 bits >>
Mul16(x, y) ==
  LET a1 == x \div Byte
      a0 == x % Byte
      b1 == y \div Byte
      b0 == y % Byte
      m == a1 * b0 + a0 * b1
      low == a0 * b0 + (m % Byte) * Byte
  IN  << (a1 * b1 + (m \div Byte) + (low \div Half)) % Half, low % Half >>

\* the low 32 bits of x * y, read as an int (what the wrapping multiply gives)
WrapMul(x, y) ==
  LET xh == (x \div Half) % Half
      xl == x % Half
      yh == (y \div Half) % Half
      yl == y % Half
      ll == Mul16(xl, yl)
      hi == (ll[1] + Mul16(xh, yl)[2] + Mul16(xl, yh)[2]) % Half
  IN  IF hi >= Half \div 2 THEN (hi - Half) * Half + ll[2] ELSE hi * Half + ll[2]

Abs(x) == IF x < 0 THEN -x ELSE x

\* whether the mathematical product of the ints x and y is outside int
MulOverflows(x, y) ==
  IF x = 0 \/ y = 0 THEN FALSE
  ELSE IF x = IntMin \/ y = IntMin THEN ~ (x = 1 \/ y = 1)
  ELSE LET q == IntMax \div Abs(y)
       IN  IF (x < 0) = (y < 0)
             THEN Abs(x) > q
             ELSE Abs(x) > q
                    /\ ~ (Abs(x) = q + 1 /\ IntMax % Abs(y) = Abs(y) - 1)

\* whether the mathematical sum of the ints x and y is outside int
AddOverflows(x, y) ==
  \/ x > 0 /\ y > 0 /\ x > IntMax - y
  \/ x < 0 /\ y < 0 /\ x < IntMin - y

\* the low 32 bits of x + y, read as an int
WrapAdd(x, y) ==
  IF x > 0 /\ y > 0 /\ x > IntMax - y THEN (x - IntMax - 1) + (y - IntMax - 1)
  ELSE IF x < 0 /\ y < 0 /\ x < IntMin - y THEN (x + IntMax + 1) + (y + IntMax + 1)
  ELSE x + y

\* an int expression is evaluated to [ v |-> value, ub |-> signed overflow
\* (undefined behaviour) occurred on the way ]
IntVal(x) == [ v |-> x, ub |-> FALSE ]
IntMul(e, f) ==
  [ v |-> WrapMul(e.v, f.v), ub |-> e.ub \/ f.ub \/ MulOverflows(e.v, f.v) ]
IntAdd(e, f) ==
  [ v |-> WrapAdd(e.v, f.v), ub |-> e.ub \/ f.ub \/ AddOverflows(e.v, f.v) ]

\* a std::size_t (64 bits) as its eight bytes, least significant first
SizeTBytes == 8
\* conversion of an int to std::size_t: sign extension
ToSizeT(x) ==
  [ i \in 1 .. SizeTBytes |->
      IF i <= 4
        THEN (IF i = 1 THEN x
              ELSE IF i = 2 THEN x \div Byte
              ELSE IF i = 3 THEN x \div (Byte * Byte)
              ELSE x \div (Byte * Byte * Byte)) % Byte
        ELSE IF x < 0 THEN Byte - 1 ELSE 0 ]

\* GetMaxWorkingSetSizes: the three int expressions, then their conversion
\* variant: C is multiplied in twice, K not at all
WeightExpr_CTwice(dimension_sizes) ==
  IntMul(IntMul(IntMul(IntVal(dimension_sizes[R]), IntVal(dimension_sizes[S])),
                IntVal(dimension_sizes[C])),
         IntVal(dimension_sizes[C]))

WeightExpr(dimension_sizes) ==
  IntMul(IntMul(IntMul(IntVal(dimension_sizes[R]), IntVal(dimension_sizes[S])),
                IntVal(dimension_sizes[C])),
         IntVal(dimension_sizes[K]))

InputExpr(dimension_sizes) ==
  IntMul(IntMul(IntMul(IntAdd(IntAdd(IntVal(dimension_sizes[P]),
                                     IntVal(dimension_sizes[R])), IntVal(-1)),
                       IntAdd(IntAdd(IntVal(dimension_sizes[Q]),
                                     IntVal(dimension_sizes[S])), IntVal(-1))),
                IntVal(dimension_sizes[C])),
         IntVal(dimension_sizes[N]))

OutputExpr(dimension_sizes) ==
  IntMul(IntMul(IntMul(IntVal(dimension_sizes[P]), IntVal(dimension_sizes[Q])),
                IntVal(dimension_sizes[K])),
         IntVal(dimension_sizes[N]))

\* the possible outcomes of GetMaxWorkingSetSizes(dimension_sizes): the value
\* returned, or, after a signed overflow, the wrapped value or a trap
GetMaxWorkingSetSizes(dimension_sizes) ==
  LET w == WeightExpr(dimension_sizes)
      i == InputExpr(dimension_sizes)
      o == OutputExpr(dimension_sizes)
      ub == w.ub \/ i.ub \/ o.ub
      value == << ToSizeT(w.v), ToSizeT(i.v), ToSizeT(o.v) >>
  IN  IF ub
        THEN { [ status |-> "undefined", value |-> value ],
               [ status |-> "trap", value |-> << >> ] }
        ELSE { [ status |-> "ok", value |-> value ] }

----------------------------------------------------------------------------
(* The calls a client makes *)

Slots == { "a", "b" }
Get(slot) == IF slot = "a" THEN a ELSE b
Assign(slot, obj) ==
  IF slot = "a" THEN a' = obj /\ b' = b ELSE b' = obj /\ a' = a

Registered == Len(projectors) > 0

\* BuildProblemShape()
DoBuildProblemShape ==
  /\ DataTypeOrder' = BuiltDataTypeOrder
  /\ projectors' = BuiltProjectors
  /\ last' = [ op |-> "BuildProblemShape", status |-> "ok", registered |-> Registered ]
  /\ UNCHANGED << config, a, b, retval >>

\* OperationSpace slot(wc);
DoConstructEmpty(slot, wc) ==
  LET r == OperationSpaceEmpty(wc)
  IN  /\ last' = [ op |-> "OperationSpace(wc)", status |-> r.status,
                   registered |-> Registered, slot |-> slot, wc |-> wc ]
      /\ IF r.status = "ok" THEN Assign(slot, r.obj) ELSE UNCHANGED << a, b >>
      /\ UNCHANGED << DataTypeOrder, projectors, config, retval >>

\* OperationSpace slot;  (delegates to OperationSpace(nullptr))
DoConstructDefault(slot) ==
  LET r == OperationSpaceEmpty(nullptr)
  IN  /\ last' = [ op |-> "OperationSpace()", status |-> r.status,
                   registered |-> Registered, slot |-> slot ]
      /\ IF r.status = "ok" THEN Assign(slot, r.obj) ELSE UNCHANGED << a, b >>
      /\ UNCHANGED << DataTypeOrder, projectors, config, retval >>

\* OperationSpace slot(wc, low, high);
DoConstructRegion(slot, wc, low, high) ==
  \E r \in OperationSpaceRegion(wc, low, high) :
    /\ last' = [ op |-> "OperationSpace(wc,low,high)", status |-> r.status,
                 registered |-> Registered, slot |-> slot, wc |-> wc,
                 low |-> low, high |-> high ]
    /\ IF r.status \in { "ok", "undefined" }
         THEN Assign(slot, r.obj) ELSE UNCHANGED << a, b >>
    /\ UNCHANGED << DataTypeOrder, projectors, config, retval >>

\* slot.Reset();
DoReset(slot) ==
  /\ Get(slot) # NoObject
  /\ Assign(slot, ResetObj(Get(slot)))
  /\ last' = [ op |-> "Reset", status |-> "ok", registered |-> Registered,
               slot |-> slot ]
  /\ UNCHANGED << DataTypeOrder, projectors, config, retval >>

\* dst += src;  (src an OperationSpace)
DoAccumulateSpace(dst, src) ==
  /\ Get(dst) # NoObject
  /\ Get(src) # NoObject
  /\ Assign(dst, AccumulateObj(Get(dst), Get(src)))
  /\ last' = [ op |-> "+=space", status |-> "ok", registered |-> Registered,
               slot |-> dst, src |-> src ]
  /\ UNCHANGED << DataTypeOrder, projectors, config, retval >>

\* slot += p;  (p an OperationPoint)
DoAccumulatePoint(slot, p) ==
  /\ Get(slot) # NoObject
  /\ \E r \in Deref(Get(slot).workload_config_) :
       /\ last' = [ op |-> "+=point", registered |-> Registered, slot |-> slot,
                    wc |-> Get(slot).workload_config_, p |-> p,
                    status |-> CASE r.kind = "value" -> "ok"
                                 [] r.kind = "garbage" -> "undefined"
                                 [] r.kind = "crash" -> "crash" ]
       /\ IF r.kind = "crash"
            THEN UNCHANGED << a, b >>
            ELSE Assign(slot, AccumulatePointObj(Get(slot), r.val, p))
  /\ UNCHANGED << DataTypeOrder, projectors, config, retval >>

\* retval = lhs - rhs;
DoSubtract(lhs, rhs) ==
  /\ Get(lhs) # NoObject
  /\ Get(rhs) # NoObject
  /\ retval' = SubtractObj(Get(lhs), Get(rhs))
  /\ last' = [ op |-> "-", status |-> "ok", registered |-> Registered,
               lhs |-> lhs, rhs |-> rhs ]
  /\ UNCHANGED << DataTypeOrder, projectors, config, a, b >>

\* slot.GetSizes()
DoGetSizes(slot) ==
  /\ Get(slot) # NoObject
  /\ last' = [ op |-> "GetSizes", status |-> "ok", registered |-> Registered,
               slot |-> slot, value |-> GetSizes(Get(slot)) ]
  /\ UNCHANGED << DataTypeOrder, projectors, config, a, b, retval >>

\* slot.GetSize(t)
DoGetSize(slot, t) ==
  /\ Get(slot) # NoObject
  /\ LET r == GetSize(Get(slot), t)
     IN  last' = [ op |-> "GetSize", status |-> r.status, registered |-> Registered,
                   slot |-> slot, t |-> t, value |-> r.value ]
  /\ UNCHANGED << DataTypeOrder, projectors, config, a, b, retval >>

\* slot.IsEmpty(t)
DoIsEmpty(slot, t) ==
  /\ Get(slot) # NoObject
  /\ LET r == IsEmpty(Get(slot), t)
     IN  last' = [ op |-> "IsEmpty", status |-> r.status, registered |-> Registered,
                   slot |-> slot, t |-> t, value |-> r.value ]
  /\ UNCHANGED << DataTypeOrder, projectors, config, a, b, retval >>

\* lhs.CheckEquality(rhs, t)
DoCheckEquality(lhs, rhs, t) ==
  /\ Get(lhs) # NoObject
  /\ Get(rhs) # NoObject
  /\ LET r == CheckEquality(Get(lhs), Get(rhs), t)
     IN  last' = [ op |-> "CheckEquality", status |-> r.status,
                   registered |-> Registered, slot |-> lhs, rhs |-> rhs, t |-> t,
                   value |-> r.value ]
  /\ UNCHANGED << DataTypeOrder, projectors, config, a, b, retval >>

\* GetMaxWorkingSetSizes(dimension_sizes)
DoGetMaxWorkingSetSizes(dimension_sizes) ==
  /\ \E r \in GetMaxWorkingSetSizes(dimension_sizes) :
       last' = [ op |-> "GetMaxWorkingSetSizes", status |-> r.status,
                 registered |-> Registered, dims |-> dimension_sizes,
                 value |-> r.value ]
  /\ UNCHANGED << DataTypeOrder, projectors, config, a, b, retval >>

----------------------------------------------------------------------------
(* Spec: a client making up to MaxOps calls, starting before registration *)

Zeros == [ d \in 1 .. NumDimensions |-> 0 ]
Ones == [ d \in 1 .. NumDimensions |-> 1 ]

\* operation points of the client: R and K vary
MainPoints == { p \in OperationPoints : p[S] = 0 /\ p[P] = 0 /\ p[Q] = 0 /\ p[C] = 0
                                        /\ p[N] = 0 /\ p[R] <= 1 }
Pointers == { nullptr, WcPtr }
\* DataType ordinals passed to the accessors, in and out of range
Ordinals == (-1) .. NumDataTypes
\* dimension sizes passed to GetMaxWorkingSetSizes: R, S, P, Q, C, K, N
MainDims == { Ones, << 3, 3, 4, 4, 2, 2, 1 >> }

NoCall == [ op |-> "none", status |-> "ok", registered |-> FALSE ]

Init ==
  /\ DataTypeOrder = << >>
  /\ projectors = << >>
  /\ config \in MainConfigs
  /\ a = NoObject
  /\ b = NoObject
  /\ retval = NoObject
  /\ last = NoCall
  /\ nops = 0

\* a behaviour is a sequence of calls that build or change objects, ended by
\* one call that only reads
Count == nops < MaxOps /\ nops' = nops + 1
Final == nops < MaxOps /\ nops' = MaxOps

\* registration runs once, before or between the client's calls
BuildProblemShape == ~ Registered /\ DoBuildProblemShape /\ UNCHANGED nops

ConstructEmpty ==
  \E slot \in Slots, wc \in Pointers : Count /\ DoConstructEmpty(slot, wc)

ConstructDefault ==
  \E slot \in Slots : Count /\ DoConstructDefault(slot)

ConstructRegion ==
  \E slot \in Slots, wc \in Pointers, low \in MainPoints, high \in MainPoints :
    PointLeq(low, high) /\ Count /\ DoConstructRegion(slot, wc, low, high)

Reset == \E slot \in Slots : Count /\ DoReset(slot)

AccumulateSpace == \E dst \in Slots, src \in Slots : Count /\ DoAccumulateSpace(dst, src)

AccumulatePoint ==
  \E slot \in Slots, p \in MainPoints : Count /\ DoAccumulatePoint(slot, p)

Subtract == \E lhs \in Slots, rhs \in Slots : Count /\ DoSubtract(lhs, rhs)

CallGetSizes == \E slot \in Slots : Final /\ DoGetSizes(slot)

CallGetSize == \E slot \in Slots, t \in Ordinals : Final /\ DoGetSize(slot, t)

CallIsEmpty == \E slot \in Slots, t \in Ordinals : Final /\ DoIsEmpty(slot, t)

CallCheckEquality ==
  \E lhs \in Slots, rhs \in Slots, t \in Ordinals : Final /\ DoCheckEquality(lhs, rhs, t)

CallGetMaxWorkingSetSizes ==
  \E dims \in MainDims : Final /\ DoGetMaxWorkingSetSizes(dims)

Next ==
  \/ BuildProblemShape
  \/ ConstructEmpty
  \/ ConstructDefault
  \/ ConstructRegion
  \/ Reset
  \/ AccumulateSpace
  \/ AccumulatePoint
  \/ Subtract
  \/ CallGetSizes
  \/ CallGetSize
  \/ CallIsEmpty
  \/ CallCheckEquality
  \/ CallGetMaxWorkingSetSizes

Spec == Init /\ [][Next]_vars

----------------------------------------------------------------------------
(* SpecRegion: after registration, one Operation Space built from a region *)
(* of the iteration space, for every configuration                          *)

InitRegion ==
  /\ DataTypeOrder = BuiltDataTypeOrder
  /\ projectors = BuiltProjectors
  /\ config \in Configs
  /\ a = NoObject
  /\ b = NoObject
  /\ retval = NoObject
  /\ last = NoCall
  /\ nops = 0

\* the one object of a behaviour is declared once
RegionConstruct ==
  /\ a = NoObject
  /\ \E low \in OperationPoints, high \in OperationPoints :
       PointLeq(low, high) /\ DoConstructRegion("a", WcPtr, low, high)
  /\ UNCHANGED nops

RegionGetSizes == DoGetSizes("a") /\ UNCHANGED nops

\* the closed form is asked for the extents of the region held in a: low is
\* the origin and the extents are high, or high plus one
RegionGetMaxWorkingSetSizes ==
  /\ a # NoObject
  /\ \E reg \in a.hist :
       /\ reg.low = Zeros
       /\ \E dims \in { reg.high, IncrementAllDimensions(reg.high) } :
            /\ \A d \in 1 .. NumDimensions : dims[d] >= 1
            /\ DoGetMaxWorkingSetSizes(dims)
  /\ UNCHANGED nops

NextRegion == RegionConstruct \/ RegionGetSizes \/ RegionGetMaxWorkingSetSizes

SpecRegion == InitRegion /\ [][NextRegion]_vars

----------------------------------------------------------------------------
(* SpecAlgebra: after registration, two Operation Spaces built from regions *)
(* and then accumulated into and subtracted from each other                 *)

InitAlgebra ==
  /\ DataTypeOrder = BuiltDataTypeOrder
  /\ projectors = BuiltProjectors
  /\ config \in MainConfigs
  /\ a = NoObject
  /\ b = NoObject
  /\ retval = NoObject
  /\ last = NoCall
  /\ nops = 0

\* each of the two objects is declared once
AlgebraConstruct ==
  /\ \E slot \in Slots, low \in MainPoints, high \in MainPoints :
       /\ Get(slot) = NoObject
       /\ PointLeq(low, high)
       /\ DoConstructRegion(slot, WcPtr, low, high)
  /\ UNCHANGED nops

AlgebraAccumulate ==
  /\ \E dst \in Slots, src \in Slots : DoAccumulateSpace(dst, src)
  /\ UNCHANGED nops

AlgebraSubtract ==
  /\ \E lhs \in Slots, rhs \in Slots : DoSubtract(lhs, rhs)
  /\ UNCHANGED nops

NextAlgebra == AlgebraConstruct \/ AlgebraAccumulate \/ AlgebraSubtract

SpecAlgebra == InitAlgebra /\ [][NextAlgebra]_vars

----------------------------------------------------------------------------
(* SpecWS: GetMaxWorkingSetSizes over small and large dimension sizes *)

ExtentValues == { 1, 2, 3, 4, 46341 }

\* one call in a behaviour
WSGetMaxWorkingSetSizes ==
  /\ nops = 0
  /\ nops' = 1
  /\ \E dims \in [ 1 .. NumDimensions -> ExtentValues ] :
       DoGetMaxWorkingSetSizes(dims)

NextWS == WSGetMaxWorkingSetSizes

SpecWS == Init /\ [][NextWS]_vars

----------------------------------------------------------------------------
(* Vocabulary of the properties *)

\* the object was built by OperationSpace(wc, low, high) from one region
BuiltFromOneRegion(o) == o # NoObject /\ o.pure /\ Cardinality(o.hist) = 1
RegionOf(o) == CHOOSE reg \in o.hist : TRUE

\* the operation points p with low <= p < high, and with low <= p <= high
ExclusiveRegion(low, high) == Box(low, high)
InclusiveRegion(low, high) == Box(low, [ d \in 1 .. Len(high) |-> high[d] + 1 ])

\* the tensor points of DataType t that the operation points of region touch
Project(t, wcv, p) == CallProjector(BuiltProjectors[t + 1], wcv, p)
Touched(t, wcv, region) == { Project(t, wcv, p) : p \in region }

SizeOf(o, t) == Cardinality(o.data_spaces_[t + 1])

UnitConfig ==
  /\ config.Wstride = 1 /\ config.Wdilation = 1
  /\ config.Hstride = 1 /\ config.Hdilation = 1

RECURSIVE Product(_)
Product(seq) == IF Len(seq) = 0 THEN 1 ELSE seq[1] * Product(Tail(seq))

\* natural numbers below 2^64 as eight bytes, least significant first
RECURSIVE MulBytes(_, _, _)
MulBytes(bytes, k, carry) ==
  IF Len(bytes) = 0
    THEN << >>
    ELSE LET t == bytes[1] * k + carry
         IN  << t % 256 >> \o MulBytes(Tail(bytes), k, t \div 256)
NatToBytes(n) == MulBytes(<< 1, 0, 0, 0, 0, 0, 0, 0 >>, n, 0)

RECURSIVE BytesLeq(_, _)
BytesLeq(x, y) ==
  IF Len(x) = 0
    THEN TRUE
    ELSE LET n == Len(x)
         IN  \/ x[n] < y[n]
             \/ x[n] = y[n] /\ BytesLeq(SubSeq(x, 1, n - 1), SubSeq(y, 1, n - 1))

\* the closed forms of the three working sets, as natural numbers
ExactWeight(d) ==
  MulBytes(MulBytes(MulBytes(NatToBytes(d[R]), d[S], 0), d[C], 0), d[K], 0)
ExactInput(d) ==
  MulBytes(MulBytes(MulBytes(NatToBytes(d[P] + d[R] - 1), d[Q] + d[S] - 1, 0),
                    d[C], 0), d[N], 0)
ExactOutput(d) ==
  MulBytes(MulBytes(MulBytes(NatToBytes(d[P]), d[Q], 0), d[K], 0), d[N], 0)

----------------------------------------------------------------------------
(* C1 *)

\* C1 as stated: the Operation Space built from a well-formed pair low, high
\* has, for each DataType, exactly as many points as the operation points of
\* [low, high), high exclusive, project to.  (Stated for the pairs with
\* low < high on every dimension, whose region [low, high) is not empty.)
C1_Original ==
  (/\ BuiltFromOneRegion(a)
   /\ \A d \in 1 .. NumDimensions : RegionOf(a).low[d] < RegionOf(a).high[d]) =>
    LET reg == RegionOf(a)
    IN  \A t \in DataTypes :
          SizeOf(a, t) =
            Cardinality(Touched(t, config, ExclusiveRegion(reg.low, reg.high)))

\* C1 amended: with high the last operation point of the region (inclusive),
\* every DataType's Data Space contains every tensor point the region
\* projects to; its size is exactly the number of distinct projected points
\* for Weight and Output, and for Input when all strides and dilations are 1.
C1_BoxCoversInclusiveRegion ==
  BuiltFromOneRegion(a) =>
    LET reg == RegionOf(a)
    IN  \A t \in DataTypes :
          LET touched == Touched(t, config, InclusiveRegion(reg.low, reg.high))
          IN  /\ touched \subseteq a.data_spaces_[t + 1]
              /\ (t \in { Weight, Output } \/ UnitConfig)
                   => SizeOf(a, t) = Cardinality(touched)

C1_Witness ==
  /\ BuiltFromOneRegion(a)
  /\ RegionOf(a).low = Zeros
  /\ RegionOf(a).high = Ones
  /\ UnitConfig
  /\ SizeOf(a, Input) = 36

----------------------------------------------------------------------------
(* C2 *)

\* C2 as stated: the Operation Space built from (p, p + 1) reports size 1 for
\* every DataType.
C2_Original ==
  (/\ last.op = "GetSizes"
   /\ BuiltFromOneRegion(a)
   /\ RegionOf(a).high = [ d \in 1 .. NumDimensions |-> RegionOf(a).low[d] + 1 ])
    => last.value = << 1, 1, 1 >>

\* C2 amended: the Operation Space built from (p, p), low = high = p, reports
\* size 1 for every DataType.
C2_SinglePointRegion ==
  (/\ last.op = "GetSizes"
   /\ BuiltFromOneRegion(a)
   /\ RegionOf(a).high = RegionOf(a).low)
    => last.value = << 1, 1, 1 >>

C2_Witness ==
  /\ last.op = "GetSizes"
  /\ BuiltFromOneRegion(a)
  /\ RegionOf(a).high = RegionOf(a).low
  /\ RegionOf(a).low = Ones
  /\ config.Wstride = 2
  /\ last.value = << 1, 1, 1 >>

----------------------------------------------------------------------------
(* C9 *)

\* C9: the Data Space of every DataType t is the box from Projector[t](low)
\* inclusive to Projector[t](high) plus one on every tensor axis exclusive;
\* its size is the product over the axes of
\* Projector[t](high)[axis] - Projector[t](low)[axis] + 1, and at least 1.
C9_ProjectedBox ==
  BuiltFromOneRegion(a) =>
    LET reg == RegionOf(a)
    IN  \A t \in DataTypes :
          LET pl == Project(t, config, reg.low)
              ph == Project(t, config, reg.high)
          IN  /\ a.data_spaces_[t + 1] = Box(pl, [ i \in 1 .. Len(ph) |-> ph[i] + 1 ])
              /\ SizeOf(a, t) =
                   Product([ i \in 1 .. Len(ph) |-> ph[i] - pl[i] + 1 ])
              /\ SizeOf(a, t) >= 1

C9_Witness ==
  /\ BuiltFromOneRegion(a)
  /\ RegionOf(a).low = Zeros
  /\ RegionOf(a).high = Ones
  /\ config.Wstride = 2 /\ config.Wdilation = 2
  /\ config.Hstride = 1 /\ config.Hdilation = 2
  /\ SizeOf(a, Input) = 5 * 4 * 2 * 2

----------------------------------------------------------------------------
(* C3 *)

\* the sizes of the object in a against the result of GetMaxWorkingSetSizes
ClosedFormAgrees ==
  /\ last.status = "ok"
  /\ NatToBytes(SizeOf(a, Weight)) = last.value[Weight + 1]
  /\ NatToBytes(SizeOf(a, Output)) = last.value[Output + 1]
  /\ BytesLeq(NatToBytes(SizeOf(a, Input)), last.value[Input + 1])

----------------------------------------------------------------------------
(* C4 *)

\* the last call was lhs - rhs with lhs the accumulation of the regions A and
\* B, rhs built from A, and A and B without a common operation point
SubtractedA == RegionOf(Get(last.rhs))
SubtractedB == CHOOSE reg \in Get(last.lhs).hist : reg # SubtractedA
UnionMinusFirst ==
  /\ last.op = "-"
  /\ BuiltFromOneRegion(Get(last.rhs))
  /\ Get(last.lhs).pure
  /\ Cardinality(Get(last.lhs).hist) = 2
  /\ Get(last.rhs).hist \subseteq Get(last.lhs).hist
  /\ InclusiveRegion(SubtractedA.low, SubtractedA.high)
       \cap InclusiveRegion(SubtractedB.low, SubtractedB.high) = {}

FromRegionA == RegionDataSpaces(config, SubtractedA.low, SubtractedA.high)
FromRegionB == RegionDataSpaces(config, SubtractedB.low, SubtractedB.high)

\* C4 as stated: for disjoint regions A and B, (FromRegion(A) += FromRegion(B))
\* - FromRegion(A) has, for every DataType, the size of FromRegion(B).
C4_Original ==
  UnionMinusFirst =>
    \A t \in DataTypes : SizeOf(retval, t) = Cardinality(FromRegionB[t + 1])

\* C4 amended: the size is that of FromRegion(B) less the number of tensor
\* points FromRegion(A) and FromRegion(B) share; it is the size of
\* FromRegion(B) when the two Data Spaces of that DataType are disjoint.
C4_UnionMinusFirst ==
  UnionMinusFirst =>
    \A t \in DataTypes :
      /\ SizeOf(retval, t) =
           Cardinality(FromRegionB[t + 1])
             - Cardinality(FromRegionB[t + 1] \cap FromRegionA[t + 1])
      /\ FromRegionB[t + 1] \cap FromRegionA[t + 1] = {}
           => SizeOf(retval, t) = Cardinality(FromRegionB[t + 1])

C4_Witness ==
  /\ UnionMinusFirst
  /\ SizeOf(retval, Weight) = Cardinality(FromRegionB[Weight + 1])
  /\ SizeOf(retval, Weight) = 2
  /\ SizeOf(retval, Input) = 0

----------------------------------------------------------------------------
(* C5 *)

ConstructorCalls ==
  { "OperationSpace(wc)", "OperationSpace()", "OperationSpace(wc,low,high)" }

\* C5 as stated: a constructor, the accumulation of a point or
\* GetMaxWorkingSetSizes called before registration fails.
C5_Original ==
  (/\ ~ last.registered
   /\ last.op \in ConstructorCalls \cup { "+=point", "GetMaxWorkingSetSizes" })
    => last.status # "ok"

\* C5 amended: before registration every constructor fails with
\* std::out_of_range and constructs nothing, so no Operation Space exists and
\* no point is accumulated; GetMaxWorkingSetSizes does not read the registry
\* and returns its result.
C5_ConstructorsFailBeforeRegistration ==
  /\ (~ last.registered /\ last.op \in ConstructorCalls)
       => last.status = "out_of_range"
  /\ ~ Registered => (a = NoObject /\ b = NoObject /\ retval = NoObject)
  /\ last.op \in { "+=point", "+=space", "-", "Reset" } => last.registered
  /\ (~ last.registered /\ last.op = "GetMaxWorkingSetSizes")
       => last.status = "ok"

C5_Witness ==
  /\ ~ last.registered
  /\ last.op = "OperationSpace(wc,low,high)"
  /\ last.status = "out_of_range"
  /\ a = NoObject
  /\ b = NoObject

----------------------------------------------------------------------------
(* C6 *)

AccessorCalls == { "GetSize", "IsEmpty", "CheckEquality" }

\* C6: GetSize(t), IsEmpty(t) and CheckEquality(other, t) with t outside
\* 0 .. NumDataTypes - 1 throw std::out_of_range, return no value and leave
\* every Operation Space as it was.
C6_OrdinalOutOfRange ==
  [][ (last'.op \in AccessorCalls /\ last'.t \notin DataTypes)
        => (/\ last'.status = "out_of_range"
            /\ a' = a
            /\ b' = b
            /\ retval' = retval) ]_vars

C6_Witness ==
  /\ last.op = "CheckEquality"
  /\ last.t = -1
  /\ last.status = "out_of_range"
  /\ a # NoObject
  /\ SizeOf(a, Weight) > 0

----------------------------------------------------------------------------
(* C7 *)

\* C7: GetMaxWorkingSetSizes returns the exact values R*S*C*K,
\* (P+R-1)*(Q+S-1)*C*N and P*Q*K*N, also when they exceed the range of int.
C7_Exact ==
  last.op = "GetMaxWorkingSetSizes" =>
    /\ last.status = "ok"
    /\ last.value =
         << ExactWeight(last.dims), ExactInput(last.dims), ExactOutput(last.dims) >>

----------------------------------------------------------------------------
(* C8 *)

\* C8: lhs - rhs returns a new Operation Space with lhs's workload
\* configuration and, per DataType, the difference of the two Data Spaces;
\* both operands and the workload configuration are unchanged.
C8_SubtractIsPure ==
  [][ last'.op = "-"
        => (/\ retval'.workload_config_ = Get(last'.lhs).workload_config_
            /\ \A t \in DataTypes :
                 retval'.data_spaces_[t + 1] =
                   Get(last'.lhs).data_spaces_[t + 1]
                     \ Get(last'.rhs).data_spaces_[t + 1]
            /\ a' = a
            /\ b' = b
            /\ config' = config) ]_vars

C8_Witness ==
  /\ last.op = "-"
  /\ last.lhs = "a"
  /\ last.rhs = "b"
  /\ retval.workload_config_ = WcPtr
  /\ SizeOf(a, Weight) = 4
  /\ SizeOf(b, Weight) = 2
  /\ SizeOf(retval, Weight) = 2

----------------------------------------------------------------------------
(* C10 *)

\* C10: whenever an operation point is accumulated into an Operation Space,
\* the workload configuration handed to the projectors is not null.
C10_ConfigNotNull ==
  last.op = "+=point" => last.wc # nullptr

====
